---- MODULE Spec2Model ----
(***************************************************************************)
(* Ball-and-chain physics of src/src/game.rs: the circle-vs-segment        *)
(* collision detector (Ball::collide), the body integrator (Ball::update), *)
(* the chain controller (Player::update) and the driver (Game::update,     *)
(* Game::draw, Game::handle_event).                                        *)
(*                                                                         *)
(* f32 values are fixed-point integers: lengths in 1/PosScale units,       *)
(* velocities in 1/PosScale units per second, times in 1/TimeScale         *)
(* seconds, unit vectors in 1/UnitScale.  A vector whose components are    *)
(* NaN (the result of normalizing the zero vector) is the value NaNVec;    *)
(* every comparison with NaN is false, as in IEEE arithmetic.              *)
(***************************************************************************)
EXTENDS Integers, Sequences, FiniteSets, TLC

VARIABLES time, player, save, spin, level, pc, step_i, step_dt, last, prev

vars == <<time, player, save, spin, level, pc, step_i, step_dt, last, prev>>

----------------------------------------------------------------------------
(* Fixed-point resolutions, and the bound of the model: no frame begins    *)
(* once MaxTime seconds have elapsed.                                      *)

PosScale == 100
TimeScale == 10000
UnitScale == 1000

MaxTime == 1
E2EMaxTime == 3

----------------------------------------------------------------------------
(* Program constants. *)

GRAVITY == 5000
BALL_SWING_DISTANCE == 80
STEPS == 100
CHAIN_RETRACT_RATE == 500
CHAIN_FLOOR == 10
SHORTEN_RATE == 200
SHORTEN_FLOOR == 5
CHARACTER_SIZE == 100
BALL_SIZE == 50
NEW_CHAIN_LEN == 100
RELEASE_CHAIN_LEN == 200

----------------------------------------------------------------------------
(* Scalars and vectors. *)

Abs(a) == IF a < 0 THEN -a ELSE a

\* a / b rounded to the nearest integer, b > 0
RoundDiv(a, b) == (2 * a + b) \div (2 * b)

RECURSIVE SqrtSearch(_, _, _)
SqrtSearch(n, lo, hi) ==
    IF lo >= hi THEN lo
    ELSE LET mid == (lo + hi + 1) \div 2
         IN  IF mid * mid <= n THEN SqrtSearch(n, mid, hi)
                               ELSE SqrtSearch(n, lo, mid - 1)

\* square root rounded to the nearest integer
Sqrt(n) ==
    LET r == SqrtSearch(n, 0, 46340)
    IN  IF n - r * r > r THEN r + 1 ELSE r

Vec(x, y) == [x |-> x, y |-> y, nan |-> FALSE]
NaNVec == [x |-> 0, y |-> 0, nan |-> TRUE]
ZeroVec == Vec(0, 0)

VAdd(a, b) == IF a.nan \/ b.nan THEN NaNVec ELSE Vec(a.x + b.x, a.y + b.y)
VSub(a, b) == IF a.nan \/ b.nan THEN NaNVec ELSE Vec(a.x - b.x, a.y - b.y)
VNeg(a) == IF a.nan THEN NaNVec ELSE Vec(-a.x, -a.y)

\* Vec2::dot of two vectors that are not NaN
Dot(a, b) == a.x * b.x + a.y * b.y

\* Vec2::len of a vector that is not NaN; far vectors are measured on a
\* coarser grid, as f32 loses resolution with magnitude
VLen(v) ==
    IF Abs(v.x) > 30000 \/ Abs(v.y) > 30000
    THEN 8 * Sqrt((v.x \div 8) * (v.x \div 8) + (v.y \div 8) * (v.y \div 8))
    ELSE Sqrt(v.x * v.x + v.y * v.y)

\* Vec2::rotate_90
Rotate90(v) == IF v.nan THEN NaNVec ELSE Vec(-v.y, v.x)

\* Vec2::normalize: self / self.len(); 0/0 is NaN.  The result is in 1/UnitScale.
Normalize(v) ==
    IF v.nan \/ (v.x = 0 /\ v.y = 0) THEN NaNVec
    ELSE LET l == VLen(v)
         IN  Vec(RoundDiv(v.x * UnitScale, l), RoundDiv(v.y * UnitScale, l))

\* unit vector (1/UnitScale) times a scalar
ScaleUnit(u, s) ==
    IF u.nan THEN NaNVec
    ELSE Vec(RoundDiv(u.x * s, UnitScale), RoundDiv(u.y * s, UnitScale))

\* vector times a duration (1/TimeScale seconds)
ScaleTime(v, dt) == Vec(RoundDiv(v.x * dt, TimeScale), RoundDiv(v.y * dt, TimeScale))

----------------------------------------------------------------------------
(* Ball: collision detector and body integrator. *)

BallNew(pos, size) == [pos |-> pos, size |-> size, vel |-> ZeroVec, stand |-> FALSE]

\* the endpoint test of Ball::collide: n = self.pos - p
CollidePoint(b, p) ==
    LET n == VSub(b.pos, p)
        penetration == b.size - VLen(n)
    IN  IF penetration > 0
        THEN <<[normal |-> Normalize(n), penetration |-> penetration]>>
        ELSE << >>

\* Ball::collide: << >> is None, <<c>> is Some(c)
Collide(b, seg) ==
    LET p1 == seg[1]
        p2 == seg[2]
        v  == VSub(p2, p1)
    IN  IF b.pos.nan THEN << >>
        ELSE IF Dot(v, VSub(b.pos, p1)) < 0 THEN CollidePoint(b, p1)
        ELSE IF Dot(VNeg(v), VSub(b.pos, p2)) < 0 THEN CollidePoint(b, p2)
        ELSE LET n == Rotate90(Normalize(v))
                 distance == RoundDiv(Dot(n, VSub(b.pos, p1)), UnitScale)
             IN  IF distance > 0 /\ distance < b.size
                 THEN <<[normal |-> n, penetration |-> b.size - distance]>>
                 ELSE IF distance < 0 /\ distance > -b.size
                 THEN <<[normal |-> VNeg(n), penetration |-> b.size - (-distance)]>>
                 ELSE << >>

\* the contact marks the body as standing
IsGround(normal) == normal.y > Abs(normal.x) * 2

\* the body of the `if let Some(collision)` of Ball::update
Resolve(b, c) ==
    LET pushed == [b EXCEPT !.pos = VAdd(b.pos, ScaleUnit(c.normal, c.penetration))]
    IN  IF c.normal.nan THEN pushed
        ELSE IF Dot(c.normal, b.vel) < 0
        THEN LET relative_vel == RoundDiv(Dot(c.normal, b.vel), UnitScale)
             IN  [pushed EXCEPT
                    !.stand = IF IsGround(c.normal) THEN TRUE ELSE @,
                    !.vel = VSub(b.vel, ScaleUnit(c.normal, relative_vel))]
        ELSE pushed

\* the first half of Ball::update
Integrate(b, dt) ==
    IF ~b.stand
    THEN LET vel == Vec(b.vel.x, b.vel.y - RoundDiv(GRAVITY * dt, TimeScale))
         IN  [b EXCEPT !.vel = vel, !.pos = VAdd(b.pos, ScaleTime(vel, dt))]
    ELSE [b EXCEPT !.vel = ZeroVec]

RECURSIVE ResolveAll(_, _, _)
ResolveAll(b, lvl, k) ==
    IF k > Len(lvl) THEN b
    ELSE LET c == Collide(b, lvl[k])
         IN  ResolveAll(IF c # << >> THEN Resolve(b, c[1]) ELSE b, lvl, k + 1)

BallUpdate(b, lvl, dt) == ResolveAll(Integrate(b, dt), lvl, 1)

----------------------------------------------------------------------------
(* Player: the chain controller. *)

\* Player::new with the chain of a released ball
PlayerNewLongChain ==
    [character |-> BallNew(ZeroVec, CHARACTER_SIZE),
     ball |-> BallNew(ZeroVec, BALL_SIZE),
     ball_in_hands |-> TRUE,
     chain_len |-> RELEASE_CHAIN_LEN]

PlayerNew ==
    [character |-> BallNew(ZeroVec, CHARACTER_SIZE),
     ball |-> BallNew(ZeroVec, BALL_SIZE),
     ball_in_hands |-> TRUE,
     chain_len |-> NEW_CHAIN_LEN]

\* the held override of Player::update
HeldBallPos(p) ==
    VAdd(p.character.pos, ScaleUnit(Normalize(p.ball.vel), BALL_SWING_DISTANCE))

\* Retract without the `if self.ball.stand` guard
RetractInFlight(p, dt) ==
    LET shorter == p.chain_len - RoundDiv(CHAIN_RETRACT_RATE * dt, TimeScale)
    IN  IF shorter < CHAIN_FLOOR
        THEN [p EXCEPT !.chain_len = CHAIN_FLOOR, !.ball_in_hands = TRUE]
        ELSE [p EXCEPT !.chain_len = shorter]

\* Retract that clamps the chain at the floor without catching the ball
RetractNoCatch(p, dt) ==
    IF p.ball.stand
    THEN LET shorter == p.chain_len - RoundDiv(CHAIN_RETRACT_RATE * dt, TimeScale)
         IN  IF shorter < CHAIN_FLOOR
             THEN [p EXCEPT !.chain_len = CHAIN_FLOOR]
             ELSE [p EXCEPT !.chain_len = shorter]
    ELSE p

\* Retract clamped at the floor of the shorten key instead of its own
RetractToShortenFloor(p, dt) ==
    IF p.ball.stand
    THEN LET shorter == p.chain_len - RoundDiv(CHAIN_RETRACT_RATE * dt, TimeScale)
         IN  IF shorter < CHAIN_FLOOR
             THEN [p EXCEPT !.chain_len = SHORTEN_FLOOR, !.ball_in_hands = TRUE]
             ELSE [p EXCEPT !.chain_len = shorter]
    ELSE p

\* Retract with the catch one retraction step early and no clamp
RetractEarlyCatch(p, dt) ==
    IF p.ball.stand
    THEN LET shorter == p.chain_len - RoundDiv(CHAIN_RETRACT_RATE * dt, TimeScale)
         IN  IF shorter < 2 * CHAIN_FLOOR
             THEN [p EXCEPT !.chain_len = shorter, !.ball_in_hands = TRUE]
             ELSE [p EXCEPT !.chain_len = shorter]
    ELSE p

\* chain retraction while the released ball stands
Retract(p, dt) ==
    IF p.ball.stand
    THEN LET shorter == p.chain_len - RoundDiv(CHAIN_RETRACT_RATE * dt, TimeScale)
         IN  IF shorter < CHAIN_FLOOR
             THEN [p EXCEPT !.chain_len = CHAIN_FLOOR, !.ball_in_hands = TRUE]
             ELSE [p EXCEPT !.chain_len = shorter]
    ELSE p

\* Drag that pulls the character by half of the excess only
DragHalfway(p) ==
    LET delta_pos == VSub(p.ball.pos, p.character.pos)
    IN  IF ~delta_pos.nan /\ VLen(delta_pos) > p.chain_len
        THEN [p EXCEPT !.character.pos =
                 VAdd(@, ScaleUnit(Normalize(delta_pos),
                                   (VLen(delta_pos) - p.chain_len) \div 2))]
        ELSE p

\* the chain pulls the character towards the ball
Drag(p) ==
    LET delta_pos == VSub(p.ball.pos, p.character.pos)
    IN  IF ~delta_pos.nan /\ VLen(delta_pos) > p.chain_len
        THEN [p EXCEPT !.character.pos =
                 VAdd(@, ScaleUnit(Normalize(delta_pos), VLen(delta_pos) - p.chain_len))]
        ELSE p

\* Player::update up to, not including, the character's own integration
PlayerBeforeCharacter(p, lvl, dt) ==
    IF p.ball_in_hands
    THEN [p EXCEPT !.ball.pos = HeldBallPos(p)]
    ELSE Drag(Retract([p EXCEPT !.ball = BallUpdate(p.ball, lvl, dt)], dt))

\* Player::update
PlayerUpdate(p, lvl, dt) ==
    LET q == PlayerBeforeCharacter(p, lvl, dt)
    IN  [q EXCEPT !.character = BallUpdate(q.character, lvl, dt)]

\* #[derive(Clone)] of Ball and Player: a field-by-field copy
BallClone(b) == [pos |-> b.pos, vel |-> b.vel, size |-> b.size, stand |-> b.stand]

\* a copy that shares nothing but forgets the ball's stand flag
PlayerCloneBallFalling(p) ==
    [character |-> BallClone(p.character),
     ball |-> [BallClone(p.ball) EXCEPT !.stand = FALSE],
     ball_in_hands |-> p.ball_in_hands,
     chain_len |-> p.chain_len]

PlayerClone(p) ==
    [character |-> BallClone(p.character),
     ball |-> BallClone(p.ball),
     ball_in_hands |-> p.ball_in_hands,
     chain_len |-> p.chain_len]

----------------------------------------------------------------------------
(* Game: the driver. *)

\* frame times handed to Game::update
DeltaTimes == {TimeScale \div 2, TimeScale}

\* Vec2::rotated(vec2(25.0, 0.0), t * 15.0) for t = 0.5, 1.0, 1.5, ... seconds
SwingTable ==
    << Vec(867, 2345), Vec(-1899, 1626), Vec(-2183, -1218), Vec(386, -2470),
       Vec(2451, -494), Vec(1313, 2127), Vec(-1540, 1969), Vec(-2381, -762),
       Vec(-111, -2498), Vec(2304, -969), Vec(1708, 1825), Vec(-1120, 2235) >>

Swing(t) == SwingTable[(((t \div (TimeScale \div 2)) - 1) % Len(SwingTable)) + 1]

\* the level of the main specification: a floor below the start position
\* and a steep ramp rising from it on the left
MainLevel ==
    << <<Vec(-1000, -200), Vec(1000, -200)>>,
       <<Vec(-400, 200), Vec(-200, -200)>> >>

\* the level of the end-to-end scenario
FlatLevel == << <<Vec(-1000, 0), Vec(1000, 0)>> >>

Observe(name) ==
    /\ last' = name
    /\ prev' = [player |-> player, save |-> save, spin |-> spin]

Init ==
    /\ time = 0
    /\ player = PlayerNew
    /\ save = << >>
    /\ spin = FALSE
    /\ level = MainLevel
    /\ pc = "idle"
    /\ step_i = 0
    /\ step_dt = 0
    /\ last = "init"
    /\ prev = [player |-> PlayerNew, save |-> << >>, spin |-> FALSE]

\* Game::update, entry: the clock and the shorten key
BeginUpdate(delta_time, key_s) ==
    /\ pc = "idle"
    /\ time' = time + delta_time
    /\ player' = IF key_s
                 THEN [player EXCEPT !.chain_len =
                          LET c == @ - RoundDiv(SHORTEN_RATE * delta_time, TimeScale)
                          IN  IF c < SHORTEN_FLOOR THEN SHORTEN_FLOOR ELSE c]
                 ELSE player
    /\ pc' = "stepping"
    /\ step_i' = 0
    /\ step_dt' = delta_time \div STEPS
    /\ Observe("begin_update")
    /\ UNCHANGED <<save, spin, level>>

\* Game::update, one iteration of the sub-step loop
SubStep ==
    /\ pc = "stepping"
    /\ step_i < STEPS
    /\ player' = PlayerUpdate(player, level, step_dt)
    /\ step_i' = step_i + 1
    /\ Observe("substep")
    /\ UNCHANGED <<time, save, spin, level, pc, step_dt>>

\* Game::update, after the loop: the swing velocity of a held ball
EndUpdate ==
    /\ pc = "stepping"
    /\ step_i = STEPS
    /\ player' = IF player.ball_in_hands
                 THEN [player EXCEPT !.ball.vel = Swing(time)]
                 ELSE player
    /\ pc' = "idle"
    /\ step_i' = 0
    /\ step_dt' = 0
    /\ Observe("end_update")
    /\ UNCHANGED <<time, save, spin, level>>

\* Game::draw: the only state it writes is the held ball's position
Draw ==
    /\ pc = "idle"
    /\ player' = IF ~spin /\ player.ball_in_hands
                 THEN [player EXCEPT !.ball.pos = VAdd(player.character.pos, Vec(0, PosScale))]
                 ELSE player
    /\ Observe("draw")
    /\ UNCHANGED <<time, save, spin, level, pc, step_i, step_dt>>

\* begin-swing intent
MouseDown ==
    /\ pc = "idle"
    /\ spin' = TRUE
    /\ Observe("mouse_down")
    /\ UNCHANGED <<time, player, save, level, pc, step_i, step_dt>>

\* Released with the ball's stand flag left as it was
ReleasedStillStanding(p) ==
    LET q == IF p.ball_in_hands
             THEN [p EXCEPT !.ball_in_hands = FALSE,
                            !.ball.vel = Rotate90(p.ball.vel),
                            !.chain_len = NEW_CHAIN_LEN]
             ELSE p
    IN  [q EXCEPT !.chain_len = RELEASE_CHAIN_LEN]

\* the player after the end-swing intent
Released(p) ==
    LET q == IF p.ball_in_hands
             THEN [p EXCEPT !.ball_in_hands = FALSE,
                            !.ball.vel = Rotate90(p.ball.vel),
                            !.ball.stand = FALSE,
                            !.chain_len = NEW_CHAIN_LEN]
             ELSE p
    IN  [q EXCEPT !.chain_len = RELEASE_CHAIN_LEN]

\* end-swing intent
MouseUp ==
    /\ pc = "idle"
    /\ spin' = FALSE
    /\ player' = Released(player)
    /\ Observe("mouse_up")
    /\ UNCHANGED <<time, save, level, pc, step_i, step_dt>>

\* save intent
KeyP ==
    /\ pc = "idle"
    /\ save' = <<PlayerClone(player)>>
    /\ Observe("key_p")
    /\ UNCHANGED <<time, player, spin, level, pc, step_i, step_dt>>

\* load intent
KeyL ==
    /\ pc = "idle"
    /\ player' = IF save # << >> THEN PlayerClone(save[1]) ELSE player
    /\ Observe("key_l")
    /\ UNCHANGED <<time, save, spin, level, pc, step_i, step_dt>>

\* reset intent
KeyR ==
    /\ pc = "idle"
    /\ player' = PlayerNew
    /\ Observe("key_r")
    /\ UNCHANGED <<time, save, spin, level, pc, step_i, step_dt>>

Update ==
    /\ time < MaxTime * TimeScale
    /\ \E delta_time \in DeltaTimes, key_s \in BOOLEAN : BeginUpdate(delta_time, key_s)

Next ==
    \/ Update
    \/ SubStep
    \/ EndUpdate
    \/ Draw
    \/ MouseDown
    \/ MouseUp
    \/ KeyP
    \/ KeyL
    \/ KeyR

Spec == Init /\ [][Next]_vars

----------------------------------------------------------------------------
(* The end-to-end scenario: the character at (0,5) above the flat segment  *)
(* (-10,0)-(10,0), the ball held at the position and with the velocity of  *)
(* some phase of the swing; one end-swing intent, then frames only, with   *)
(* the shorten key up.  The frame loop never blocks, so frames keep coming *)
(* (weak fairness) until E2EMaxTime seconds have elapsed.                  *)

E2EPlayer(k) ==
    LET held == [PlayerNew EXCEPT !.character.pos = Vec(0, 5 * PosScale),
                                  !.ball.vel = SwingTable[k]]
    IN  [held EXCEPT !.ball.pos = HeldBallPos(held)]

InitE2E ==
    /\ time = 0
    /\ \E k \in 1..Len(SwingTable) : player = E2EPlayer(k)
    /\ save = << >>
    /\ spin = TRUE
    /\ level = FlatLevel
    /\ pc = "idle"
    /\ step_i = 0
    /\ step_dt = 0
    /\ last = "init"
    /\ prev = [player |-> player, save |-> << >>, spin |-> TRUE]

E2ERelease == last = "init" /\ MouseUp

E2EUpdate ==
    /\ last # "init"
    /\ time < E2EMaxTime * TimeScale
    /\ \E delta_time \in DeltaTimes : BeginUpdate(delta_time, FALSE)

NextE2E ==
    \/ E2ERelease
    \/ E2EUpdate
    \/ SubStep
    \/ EndUpdate

SpecE2E == InitE2E /\ [][NextE2E]_vars /\ WF_vars(NextE2E)

----------------------------------------------------------------------------
(* Properties.  `last` names the operation that produced the state and     *)
(* `prev` holds the player, the snapshot and the swing flag before it.     *)

was == prev.player

\* C1: an end-swing intent that finds the ball held leaves it released, its
\* velocity turned by 90 degrees, its stand flag clear, the chain 2.0 long
\* and the swing flag clear; the character and the ball's position are as
\* they were.
C1_ReleaseFromHeld ==
    (last = "mouse_up" /\ was.ball_in_hands) =>
        /\ ~player.ball_in_hands
        /\ player.ball.vel.x = -was.ball.vel.y
        /\ player.ball.vel.y = was.ball.vel.x
        /\ player.ball.vel.nan = was.ball.vel.nan
        /\ ~player.ball.stand
        /\ player.chain_len = 2 * PosScale
        /\ ~spin
        /\ player.character = was.character
        /\ player.ball.pos = was.ball.pos
        /\ player.ball.size = was.ball.size

\* a release of a ball that was caught standing, swinging, on a chain that
\* was not 2.0 long
C1_Witness ==
    /\ last = "mouse_up"
    /\ was.ball_in_hands
    /\ was.ball.stand
    /\ was.ball.vel # ZeroVec
    /\ was.chain_len # 2 * PosScale
    /\ prev.spin

Caught == ~was.ball_in_hands /\ player.ball_in_hands

AutoRetrieval ==
    /\ last = "substep"
    /\ player.ball.stand
    /\ player.chain_len = PosScale \div 10

\* C2 as stated: the ball becomes held only by an auto-retrieving controller
\* step or by the reset intent.
C2_OnlyRetrievalOrReset == Caught => (AutoRetrieval \/ last = "key_r")

\* C2 as amended: ... or by a load intent restoring a snapshot that was
\* saved with the ball held.
C2_RetrievalResetOrLoad ==
    Caught =>
        \/ AutoRetrieval
        \/ last = "key_r"
        \/ last = "key_l" /\ prev.save # << >> /\ prev.save[1].ball_in_hands

\* a load that puts a released ball back in the hands
C2_Witness == Caught /\ last = "key_l"

\* C3: a controller step that catches the ball leaves it standing on a chain
\* of exactly 0.1.
C3_CatchAtFloor ==
    (last = "substep" /\ Caught) =>
        /\ player.ball.stand
        /\ player.chain_len = PosScale \div 10

\* a catch by a controller step that began with a longer chain
C3_Witness ==
    /\ last = "substep"
    /\ Caught
    /\ was.chain_len > PosScale \div 10

\* the end-to-end scenario has run for E2EMaxTime seconds
E2EDone == pc = "idle" /\ time >= E2EMaxTime * TimeScale

\* C4 as stated, on the finished scenario: the released ball has come to
\* stand and is held again.
C4_E2EHeldAgain == E2EDone => (player.ball.stand /\ player.ball_in_hands)

\* C4 as amended: the released ball comes to stand unless its flight takes
\* it past an end of the segment; once it stands, every controller step
\* shortens the chain until it is 0.1 long, and the ball is held again.
C4_E2ELandedHeldAgain ==
    /\ E2EDone => (player.ball.stand \/ Abs(player.ball.pos.x) > 10 * PosScale)
    /\ (/\ last = "substep"
        /\ ~was.ball_in_hands
        /\ was.ball.stand
        /\ was.chain_len > PosScale \div 10) => player.chain_len < was.chain_len
    /\ (E2EDone /\ player.ball.stand) =>
           (player.ball_in_hands /\ player.chain_len = PosScale \div 10)

\* a finished scenario in which the ball landed on the segment and was
\* caught
C4_Witness ==
    /\ E2EDone
    /\ player.ball.stand
    /\ player.ball_in_hands
    /\ Abs(player.ball.pos.x) <= 10 * PosScale

\* the distance from a to b is greater than l (false when it is NaN)
FartherThan(a, b, l) ==
    LET d == VSub(a, b)
    IN  ~d.nan /\ VLen(d) > l

\* the tolerance of the chain constraint: 0.02
ChainSlack == PosScale \div 50

\* C5 as stated: after a controller step, held or released, the ball is no
\* farther from the character than the chain is long.
C5_ChainBoundsDistance ==
    last = "substep" =>
        ~FartherThan(player.ball.pos, player.character.pos, player.chain_len + ChainSlack)

\* C5 as amended: in a controller step that begins with the ball released,
\* once the chain has pulled and before the character's own integration, the
\* ball is no farther from the character than the chain (as the step leaves
\* it) is long.
C5_ChainBoundsDistanceAfterPull ==
    (last = "substep" /\ ~was.ball_in_hands) =>
        LET pulled == PlayerBeforeCharacter(was, level, step_dt)
        IN  /\ pulled.ball = player.ball
            /\ pulled.chain_len = player.chain_len
            /\ ~FartherThan(pulled.ball.pos, pulled.character.pos,
                            player.chain_len + ChainSlack)

\* a released step in which the chain pulled the character, whose own
\* integration then left the ball farther away than the chain is long
C5_Witness ==
    /\ last = "substep"
    /\ ~was.ball_in_hands
    /\ FartherThan(player.ball.pos, was.character.pos, player.chain_len + ChainSlack)
    /\ FartherThan(player.ball.pos, player.character.pos, player.chain_len + ChainSlack)

\* C6: a save intent makes the snapshot equal to the current player and
\* leaves the player alone; no other operation touches the snapshot; a load
\* intent that finds a snapshot makes the current player equal to it.  Hence
\* a load restores the player of the latest save, whatever ran in between.
C6_SaveLoadRoundTrip ==
    /\ last = "key_p" => (save = <<was>> /\ player = was)
    /\ last # "key_p" => save = prev.save
    /\ (last = "key_l" /\ prev.save # << >>) => player = prev.save[1]
    /\ (last = "key_l" /\ prev.save = << >>) => player = was

\* a load that brings back a snapshot from which the player had moved on:
\* other bodies' positions, a released ball, another chain length
C6_Witness ==
    /\ last = "key_l"
    /\ prev.save # << >>
    /\ player = prev.save[1]
    /\ was.character.pos # player.character.pos
    /\ was.ball.stand # player.ball.stand
    /\ was.chain_len # player.chain_len

\* C7: the reset intent leaves a freshly constructed player and the
\* snapshot as it was.
C7_Reset ==
    last = "key_r" =>
        /\ player.character = [pos |-> Vec(0, 0), vel |-> Vec(0, 0),
                               size |-> PosScale, stand |-> FALSE]
        /\ player.ball = [pos |-> Vec(0, 0), vel |-> Vec(0, 0),
                          size |-> PosScale \div 2, stand |-> FALSE]
        /\ player.ball_in_hands
        /\ player.chain_len = PosScale
        /\ save = prev.save

\* a reset of a player with a snapshot, a standing character away from the
\* origin, a released ball and another chain length
C7_Witness ==
    /\ last = "key_r"
    /\ save # << >>
    /\ was.character.stand
    /\ was.character.pos # ZeroVec
    /\ ~was.ball_in_hands
    /\ was.chain_len # PosScale

\* C8: an end-swing intent that finds the ball released only clears the
\* swing flag.
C8_ReleaseWhenReleased ==
    (last = "mouse_up" /\ ~was.ball_in_hands) => (player = was /\ ~spin)

\* C9: a controller sub-step that runs with the ball held finds a ball
\* velocity that is not zero.
C9_HeldStepHasVelocity ==
    (pc = "stepping" /\ step_i < STEPS /\ player.ball_in_hands) =>
        player.ball.vel # ZeroVec

\* some contact reported to Ball::update in the step of body b is one on
\* which a body stands
RECURSIVE GroundContact(_, _, _)
GroundContact(b, lvl, k) ==
    IF k > Len(lvl) THEN FALSE
    ELSE LET c == Collide(b, lvl[k])
         IN  IF c = << >> THEN GroundContact(b, lvl, k + 1)
             ELSE \/ (~c[1].normal.nan /\ c[1].normal.y > Abs(c[1].normal.x) * 2)
                  \/ GroundContact(Resolve(b, c[1]), lvl, k + 1)

\* C10: after a body-integrator step the body stands exactly if a contact
\* of that step has normal.y > 2 * |normal.x|: for the character in every
\* controller step, for the ball in the steps that begin with it released.
C10_StandFollowsContacts ==
    last = "substep" =>
        LET pulled == PlayerBeforeCharacter(was, level, step_dt)
        IN  /\ player.character.stand
                 <=> GroundContact(Integrate(pulled.character, step_dt), level, 1)
            /\ ~was.ball_in_hands =>
                 (player.ball.stand
                    <=> GroundContact(Integrate(was.ball, step_dt), level, 1))

\* the chain after a retracting controller step of duration dt: 5 * dt
\* shorter, and at least 0.1
Retracted(chain, dt) ==
    LET shorter == chain - RoundDiv(5 * PosScale * dt, TimeScale)
    IN  IF shorter < PosScale \div 10 THEN PosScale \div 10 ELSE shorter

\* a controller step leaves the chain alone if the ball was held or does
\* not stand after its integration, and retracts it otherwise
ChainStepEffect ==
    /\ (was.ball_in_hands \/ ~player.ball.stand) => player.chain_len = was.chain_len
    /\ (~was.ball_in_hands /\ player.ball.stand) =>
           player.chain_len = Retracted(was.chain_len, step_dt)

\* C11 as stated: the effect of a controller step on the chain, and no
\* controller step makes the chain longer.
C11_ChainStepNeverLonger ==
    last = "substep" => (ChainStepEffect /\ player.chain_len <= was.chain_len)

\* C11 as amended: the effect of a controller step on the chain; the step
\* makes the chain longer only when it retracts a chain that the shorten
\* key left below 0.1, which it sets to 0.1.
C11_ChainStepLongerOnlyBelowFloor ==
    last = "substep" =>
        /\ ChainStepEffect
        /\ \/ player.chain_len <= was.chain_len
           \/ /\ ~was.ball_in_hands
              /\ player.ball.stand
              /\ was.chain_len < PosScale \div 10
              /\ player.chain_len = PosScale \div 10

\* a controller step that raises a shortened chain of a standing released
\* ball to 0.1
C11_Witness ==
    /\ last = "substep"
    /\ ~was.ball_in_hands
    /\ player.ball.stand
    /\ was.chain_len < PosScale \div 10
    /\ player.chain_len = PosScale \div 10

====
